---- MODULE Spec2Model ----
(***************************************************************************)
(* Model of the xrealmauthz KDC policy plugin                              *)
(* (src/plugins/kdcpolicy/xrealmauthz/main.c).                             *)
(*                                                                         *)
(* C strings are sequences of bytes.  An ASCII byte is written as the      *)
(* one-character string of its character; the two bytes of the UTF-8       *)
(* encoding of U+00E9 are written "C3" (lead byte) and "A9" (continuation  *)
(* byte).  A NULL char pointer is the empty sequence (no string the code   *)
(* builds is empty).                                                       *)
(***************************************************************************)
EXTENDS Naturals, Sequences, FiniteSets

\* ------------------------------------------------------------------ bounds

\* Number of check_tgs calls that may be in flight in SpecConc.
NumProcs == 2
\* Number of two-byte characters in the long client name.
LongNameChars == 120

\* --------------------------------------------------------------- constants

ATTR_PREFIX == <<"x", "r", ":">>
MAX_DENIAL_MSG_LEN == 256

\* krb5_error_code values the plugin produces or passes through.
OK == "0"
ENOMEM == "ENOMEM"
KRB5KDC_ERR_POLICY == "KRB5KDC_ERR_POLICY"
KRB5_KDB_NOENTRY == "KRB5_KDB_NOENTRY"
KDB_READ_ERROR == "KRB5_KDB_TRUNCATED_RECORD"

\* What *status_out may point at.
StatusNull == "NULL"
StatusLookupLiteral == "literal"
StatusDenialMsg == "denial_msg"

LookupFailedMsg ==
    <<"x", "r", "e", "a", "l", "m", "a", "u", "t", "h", "z", " ", "p", "l",
      "u", "g", "i", "n", " ", "f", "a", "i", "l", "e", "d", " ", "t", "o",
      " ", "r", "e", "t", "r", "i", "e", "v", "e", " ", "c", "r", "o", "s",
      "s", "-", "r", "e", "a", "l", "m", " ", "T", "G", "T", " ", "f", "r",
      "o", "m", " ", "d", "a", "t", "a", "b", "a", "s", "e">>
WouldDenyFmt ==
    <<"x", "r", "e", "a", "l", "m", "a", "u", "t", "h", "z", " ", "p", "l",
      "u", "g", "i", "n", " ", "w", "o", "u", "l", "d", " ", "d", "e", "n",
      "y", " ">>
ForFmt == <<" ", "f", "o", "r", " ">>
FromFmt == <<" ", "f", "r", "o", "m", " ">>
DeniedFmt ==
    <<"x", "r", "e", "a", "l", "m", "a", "u", "t", "h", "z", " ", "p", "l",
      "u", "g", "i", "n", " ", "d", "e", "n", "i", "e", "d", " ", "f", "r",
      "o", "m", " ">>

\* ------------------------------------------------------------------ inputs

R1 == <<"R", "1">>
R2 == <<"R", "2">>
R3 == <<"R", "3">>

Alice == << <<"a", "l", "i", "c", "e">> >>
Bob == << <<"b", "o", "b">> >>
\* n two-byte characters.
RECURSIVE TwoByteChars(_)
TwoByteChars(n) ==
    IF n = 0 THEN <<>> ELSE <<"C3", "A9">> \o TwoByteChars(n - 1)
\* One component of LongNameChars two-byte characters.
LongName == << TwoByteChars(LongNameChars) >>
HostWww == << <<"h", "o", "s", "t">>, <<"w", "w", "w">> >>
Krbtgt(local) == << <<"k", "r", "b", "t", "g", "t">>, local >>

Princ(name, realm) == [name |-> name, realm |-> realm]

Procs == 1..NumProcs
MainProc == 1

\* ------------------------------------------------------- library functions

Min(a, b) == IF a < b THEN a ELSE b

Take(s, n) == SubSeq(s, 1, Min(Len(s), n))

RECURSIVE JoinComponents(_)
JoinComponents(comps) ==
    IF Len(comps) = 0 THEN <<>>
    ELSE IF Len(comps) = 1 THEN comps[1]
    ELSE comps[1] \o <<"/">> \o JoinComponents(Tail(comps))

\* krb5_unparse_name_flags(..., KRB5_PRINCIPAL_UNPARSE_NO_REALM, ...):
\* the components joined by '/', without "@realm".
krb5_unparse_name_no_realm(princ) == JoinComponents(princ.name)

\* krb5_unparse_name: the components joined by '/', then '@' and the realm.
krb5_unparse_name(princ) ==
    JoinComponents(princ.name) \o <<"@">> \o princ.realm

\* krb5_realm_compare: the two principals' realms are the same bytes.
krb5_realm_compare(princ1, princ2) ==
    /\ Len(princ1.realm) = Len(princ2.realm)
    /\ \A i \in 1..Len(princ1.realm) : princ1.realm[i] = princ2.realm[i]

\* snprintf(buf, size, ...): the string left in buf, at most size-1 bytes of
\* the formatted text (the last byte of buf holds the terminator).
snprintf(size, text) == Take(text, size - 1)

\* ----------------------------------------------------------- configuration

realm_entry(name) == [name |-> name, length |-> Len(name)]

\* Lines 108-112: one realm_entry per configured realm name.
RECURSIVE realm_entries(_)
realm_entries(list) ==
    IF list = <<>> THEN <<>>
    ELSE <<realm_entry(Head(list))>> \o realm_entries(Tail(list))

NullData == [null |-> TRUE, enforcing |-> FALSE, allowed_realms |-> <<>>,
             num_allowed_realms |-> 0]

\* xrealmauthz_init: the module data built from the profile.  profile_list
\* is the value list of xrealmauthz_allowed_realms, <<>> when the relation is
\* not configured (PROF_NO_RELATION); the realm array stays NULL (<<>>) then.
xrealmauthz_init(profile_enforcing, profile_list) ==
    [null |-> FALSE,
     enforcing |-> profile_enforcing,
     allowed_realms |-> realm_entries(profile_list),
     num_allowed_realms |-> Len(profile_list)]

ProfileLists == {<<>>, <<R3, R1>>}

\* ------------------------------------------------------------ pure helpers

\* Off-by-one scan: the last configured realm is never compared.
is_realm_preapproved_skip_last(data, client_realm) ==
    IF data.null \/ data.allowed_realms = <<>> THEN FALSE
    ELSE \E i \in 1..(data.num_allowed_realms - 1) :
            /\ data.allowed_realms[i].length = Len(client_realm)
            /\ Take(data.allowed_realms[i].name, Len(client_realm))
                   = client_realm

is_realm_preapproved(data, client_realm) ==
    IF data.null \/ data.allowed_realms = <<>> THEN FALSE
    ELSE \E i \in 1..data.num_allowed_realms :
            /\ data.allowed_realms[i].length = Len(client_realm)
            /\ Take(data.allowed_realms[i].name, Len(client_realm))
                   = client_realm

\* krb5_boolean enforcing = data ? data->enforcing : TRUE;
EnforcingAuditByDefault(data) == IF data.null THEN FALSE ELSE data.enforcing

EnforcingOf(data) == IF data.null THEN TRUE ELSE data.enforcing

\* asprintf(&client_realm_acl, "%s@%.*s", ATTR_PREFIX, realm) keyed by the
\* realm of the TGT principal instead of the client's.
RealmAclOfServer(tkt) == ATTR_PREFIX \o <<"@">> \o tkt.server.realm

RealmAcl(tkt) == ATTR_PREFIX \o <<"@">> \o tkt.client.realm

\* The principal ACL always built from the fully qualified name.
PrincAclAlwaysQualified(tkt) == ATTR_PREFIX \o krb5_unparse_name(tkt.client)

PrincAcl(tkt) ==
    IF krb5_realm_compare(tkt.server, tkt.client)
    THEN ATTR_PREFIX \o krb5_unparse_name_no_realm(tkt.client)
    ELSE ATTR_PREFIX \o krb5_unparse_name(tkt.client)

\* krb5_dbe_get_string outcome on an entry: rc is the store's return code,
\* value_present whether a value came back.
check_cross_realm_tgt_attribute_swallow(rc, value_present) ==
    [ret |-> OK, result |-> (rc = OK /\ value_present)]

check_cross_realm_tgt_attribute(rc, value_present) ==
    [ret |-> rc, result |-> (rc = OK /\ value_present)]

\* The denial message names the TGT principal as the requested service.
AuditMsgTicketServer(tkt, req) ==
    snprintf(MAX_DENIAL_MSG_LEN,
             WouldDenyFmt \o krb5_unparse_name(tkt.client) \o ForFmt
                 \o krb5_unparse_name(tkt.server) \o FromFmt
                 \o tkt.server.realm)

AuditMsg(tkt, req) ==
    snprintf(MAX_DENIAL_MSG_LEN,
             WouldDenyFmt \o krb5_unparse_name(tkt.client) \o ForFmt
                 \o krb5_unparse_name(req.server) \o FromFmt
                 \o tkt.server.realm)

EnforcingMsg(tkt) ==
    snprintf(MAX_DENIAL_MSG_LEN, DeniedFmt \o tkt.server.realm)

\* if (ret) goto cleanup;  -- the is_allowed test of line 249 forgotten.
AfterRealmCheckIgnoreAllowed(r) ==
    IF r.ret # OK THEN "cleanup" ELSE "L253"

\* if (ret || is_allowed) goto cleanup;
AfterRealmCheck(r) ==
    IF r.ret # OK \/ r.result THEN "cleanup" ELSE "L253"

\* ------------------------------------------------------------------- state

VARIABLES
    moddata,     \* the module data xrealmauthz_init produced
    denial_msg,  \* static char denial_msg[MAX_DENIAL_MSG_LEN], as a C string
    held,        \* database entries fetched and not yet freed
    pc,          \* per call: the line the call has reached
    ticket,      \* per call: ticket->enc_part2->client and ticket->server
    request,     \* per call: request->server
    db,          \* per call: the string attributes on the TGT principal's entry
    local,       \* per call: check_cross_realm_auth's local variables
    ret,         \* per call: the krb5_error_code returned
    status_out,  \* per call: what *status_out points at
    calls        \* per call: the database calls made, in order

vars == <<moddata, denial_msg, held, pc, ticket, request, db, local, ret,
          status_out, calls>>

NoPrinc == Princ(<<>>, <<>>)
NoTicket == [client |-> NoPrinc, server |-> NoPrinc]
NoRequest == [server |-> NoPrinc]
InitLocal == [client_realm_acl |-> <<>>, client_princ_acl |-> <<>>,
              client_princ_str |-> <<>>, tgt_entry |-> FALSE,
              is_allowed |-> FALSE, text |-> <<>>]

Ticket(client, tgt_realm) ==
    [client |-> client, server |-> Princ(Krbtgt(R3), tgt_realm)]

\* The string attributes of a database entry are the list of their keys.
HasAttr(entry, key) == \E i \in 1..Len(entry) : entry[i] = key

\* The key shapes an administrator may have set on the TGT principal for
\* the realms and the client of a ticket: realm of the client, realm of the
\* TGT principal, bare client name, qualified client name.
KeyShapes(tkt) ==
    << <<"x", "r", ":", "@">> \o tkt.client.realm,
       <<"x", "r", ":", "@">> \o tkt.server.realm,
       <<"x", "r", ":">> \o JoinComponents(tkt.client.name),
       <<"x", "r", ":">> \o JoinComponents(tkt.client.name) \o <<"@">>
           \o tkt.client.realm >>

\* The entry that carries the key shapes chosen by flags, each key once.
RECURSIVE EntryOf(_, _)
EntryOf(keys, flags) ==
    IF keys = <<>> THEN <<>>
    ELSE LET rest == EntryOf(Tail(keys), Tail(flags))
         IN IF Head(flags) /\ ~HasAttr(rest, Head(keys))
            THEN <<Head(keys)>> \o rest ELSE rest

ClientNames == {Alice, Bob, LongName}
\* The clients of concurrent calls: call 1 is alice's, the others bob's.
ConcClientNames(p) == IF p = 1 THEN {Alice} ELSE {Bob}

Deref(ptr) ==
    IF ptr = StatusDenialMsg THEN denial_msg
    ELSE IF ptr = StatusLookupLiteral THEN LookupFailedMsg
    ELSE <<>>

Init ==
    /\ moddata \in {NullData}
          \cup {xrealmauthz_init(e, l) : e \in BOOLEAN, l \in ProfileLists}
    /\ denial_msg = <<>>
    /\ held = 0
    /\ pc = [p \in Procs |-> "idle"]
    /\ ticket = [p \in Procs |-> NoTicket]
    /\ request = [p \in Procs |-> NoRequest]
    /\ db = [p \in Procs |-> <<>>]
    /\ local = [p \in Procs |-> InitLocal]
    /\ ret = [p \in Procs |-> OK]
    /\ status_out = [p \in Procs |-> StatusNull]
    /\ calls = [p \in Procs |-> <<>>]

\* The concurrent specification runs with the realm list unconfigured.
InitConc ==
    /\ Init
    /\ ~moddata.null
    /\ moddata.allowed_realms = <<>>

Call(op, arg, rc) == [op |-> op, arg |-> arg, rc |-> rc]

\* goto cleanup with return code r.
GotoCleanup(p, r) ==
    /\ ret' = [ret EXCEPT ![p] = r]
    /\ pc' = [pc EXCEPT ![p] = "cleanup"]

\* ----------------------------------------------------------------- actions

\* xrealmauthz_check: a TGS request arrives for a client with one of the
\* names, with the entry of its TGT principal carrying some of the key
\* shapes (only those that wide allows).  Same-realm requests return 0 at
\* once; the others go to check_cross_realm_auth.
xrealmauthz_check(p, names, wide) ==
    /\ pc[p] = "idle"
    /\ \E n \in names, cr \in {R1, R2}, tr \in {R1, R2}, sr \in {R2, R3},
          f1 \in BOOLEAN, f2 \in BOOLEAN, f3 \in BOOLEAN, f4 \in BOOLEAN :
         LET tkt == Ticket(Princ(n, cr), tr)
             req == [server |-> Princ(HostWww, sr)]
             entry == EntryOf(KeyShapes(tkt), <<f1, f2, f3, f4>>)
         IN /\ Len(entry) = Cardinality({i \in 1..4 : <<f1, f2, f3, f4>>[i]})
            /\ wide \/ (cr = R1 /\ sr = R3 /\ ~f2 /\ ~f3 /\ ~f4)
            /\ ticket' = [ticket EXCEPT ![p] = tkt]
            /\ request' = [request EXCEPT ![p] = req]
            /\ db' = [db EXCEPT ![p] = entry]
            /\ pc' = [pc EXCEPT ![p] =
                        IF krb5_realm_compare(req.server, tkt.client)
                        THEN "done" ELSE "L228"]
    /\ status_out' = [status_out EXCEPT ![p] = StatusNull]
    /\ ret' = [ret EXCEPT ![p] = OK]
    /\ local' = [local EXCEPT ![p] = InitLocal]
    /\ calls' = [calls EXCEPT ![p] = <<>>]
    /\ UNCHANGED <<moddata, denial_msg, held>>

\* Lines 225-229: *status_out = NULL; pre-approved realms return 0 directly.
CheckPreapproved(p) ==
    /\ pc[p] = "L228"
    /\ status_out' = [status_out EXCEPT ![p] = StatusNull]
    /\ pc' = [pc EXCEPT ![p] =
                IF is_realm_preapproved(moddata, ticket[p].client.realm)
                THEN "done" ELSE "L232"]
    /\ ret' = [ret EXCEPT ![p] = OK]
    /\ UNCHANGED <<moddata, denial_msg, held, ticket, request, db, local,
                   calls>>

\* Lines 231-237: asprintf of the realm ACL name; ENOMEM when it fails.
BuildRealmAcl(p) ==
    /\ pc[p] = "L232"
    /\ \/ /\ local' = [local EXCEPT
                         ![p].client_realm_acl = RealmAcl(ticket[p])]
          /\ pc' = [pc EXCEPT ![p] = "L240"]
          /\ UNCHANGED ret
       \/ /\ GotoCleanup(p, ENOMEM)
          /\ UNCHANGED local
    /\ UNCHANGED <<moddata, denial_msg, held, ticket, request, db,
                   status_out, calls>>

\* Lines 239-244: krb5_db_get_principal(context, ticket->server, 0, &tgt_entry).
GetPrincipal(p) ==
    /\ pc[p] = "L240"
    /\ \/ /\ calls' = [calls EXCEPT ![p] = Append(@,
                Call("krb5_db_get_principal",
                     krb5_unparse_name(ticket[p].server), OK))]
          /\ local' = [local EXCEPT ![p].tgt_entry = TRUE]
          /\ held' = held + 1
          /\ pc' = [pc EXCEPT ![p] = "L247"]
          /\ UNCHANGED <<ret, status_out>>
       \/ /\ calls' = [calls EXCEPT ![p] = Append(@,
                Call("krb5_db_get_principal",
                     krb5_unparse_name(ticket[p].server), KRB5_KDB_NOENTRY))]
          /\ status_out' = [status_out EXCEPT ![p] = StatusLookupLiteral]
          /\ GotoCleanup(p, KRB5_KDB_NOENTRY)
          /\ UNCHANGED <<local, held>>
    /\ UNCHANGED <<moddata, denial_msg, ticket, request, db>>

\* Lines 246-250: the realm ACL is looked up on the TGT entry.
CheckRealmAttr(p) ==
    /\ pc[p] = "L247"
    /\ \E rc \in {OK, KDB_READ_ERROR} :
         LET key == local[p].client_realm_acl
             r == check_cross_realm_tgt_attribute(rc, HasAttr(db[p], key))
         IN /\ calls' = [calls EXCEPT ![p] = Append(@,
                  Call("krb5_dbe_get_string", key, rc))]
            /\ local' = [local EXCEPT ![p].is_allowed = r.result]
            /\ ret' = [ret EXCEPT ![p] = r.ret]
            /\ pc' = [pc EXCEPT ![p] = AfterRealmCheck(r)]
    /\ UNCHANGED <<moddata, denial_msg, held, ticket, request, db,
                   status_out>>

\* Lines 252-278: the principal ACL name, bare for direct trust and fully
\* qualified for transitive trust; unparsing or asprintf may fail.
BuildPrincAcl(p) ==
    /\ pc[p] = "L253"
    /\ \/ /\ local' = [local EXCEPT
                ![p].client_princ_acl = PrincAcl(ticket[p]),
                ![p].client_princ_str =
                    IF krb5_realm_compare(ticket[p].server, ticket[p].client)
                    THEN <<>> ELSE krb5_unparse_name(ticket[p].client)]
          /\ pc' = [pc EXCEPT ![p] = "L281"]
          /\ UNCHANGED ret
       \/ /\ GotoCleanup(p, ENOMEM)
          /\ UNCHANGED local
    /\ UNCHANGED <<moddata, denial_msg, held, ticket, request, db,
                   status_out, calls>>

\* Lines 280-286: the principal ACL is looked up on the same TGT entry.
CheckPrincAttr(p) ==
    /\ pc[p] = "L281"
    /\ \E rc \in {OK, KDB_READ_ERROR} :
         LET key == local[p].client_princ_acl
             r == check_cross_realm_tgt_attribute(rc, HasAttr(db[p], key))
         IN /\ calls' = [calls EXCEPT ![p] = Append(@,
                  Call("krb5_dbe_get_string", key, rc))]
            /\ local' = [local EXCEPT ![p].is_allowed = r.result]
            /\ ret' = [ret EXCEPT ![p] = r.ret]
            /\ pc' = [pc EXCEPT ![p] =
                        IF r.ret # OK \/ r.result THEN "cleanup" ELSE "L288"]
    /\ UNCHANGED <<moddata, denial_msg, held, ticket, request, db,
                   status_out>>

\* Lines 286-300 and the formatting of 302-313: the text of the denial
\* message; in audit mode the two names are unparsed first, which may fail.
FormatDenial(p) ==
    /\ pc[p] = "L288"
    /\ \/ /\ local' = [local EXCEPT ![p].text =
                IF EnforcingOf(moddata) THEN EnforcingMsg(ticket[p])
                ELSE AuditMsg(ticket[p], request[p])]
          /\ pc' = [pc EXCEPT ![p] = "L302"]
          /\ UNCHANGED ret
       \/ /\ ~EnforcingOf(moddata)
          /\ GotoCleanup(p, ENOMEM)
          /\ UNCHANGED local
    /\ UNCHANGED <<moddata, denial_msg, held, ticket, request, db,
                   status_out, calls>>

\* snprintf has stored the first k bytes of the text in the static buffer;
\* the bytes of the previous message beyond them are still there.
SnprintfPartial(p) ==
    /\ pc[p] = "L302"
    /\ \E k \in {0, Len(local[p].text) \div 2} :
          denial_msg' = Take(local[p].text, k)
                           \o SubSeq(denial_msg, k + 1, Len(denial_msg))
    /\ pc' = [pc EXCEPT ![p] = "L316"]
    /\ UNCHANGED <<moddata, held, ticket, request, db, local, ret,
                   status_out, calls>>

\* Lines 302-322: snprintf completes, *status_out = denial_msg, and the
\* verdict is KRB5KDC_ERR_POLICY when enforcing and 0 otherwise.
SetDenialStatus(p) ==
    /\ pc[p] = "L316"
    /\ denial_msg' = local[p].text
    /\ status_out' = [status_out EXCEPT ![p] = StatusDenialMsg]
    /\ GotoCleanup(p, IF EnforcingOf(moddata) THEN KRB5KDC_ERR_POLICY ELSE OK)
    /\ UNCHANGED <<moddata, held, ticket, request, db, local, calls>>

\* The cleanup label without krb5_db_free_principal.
CleanupNoFree(p) ==
    /\ pc[p] = "cleanup"
    /\ local' = [local EXCEPT ![p] = [InitLocal EXCEPT
                    !.tgt_entry = local[p].tgt_entry]]
    /\ pc' = [pc EXCEPT ![p] = "done"]
    /\ UNCHANGED <<moddata, denial_msg, held, ticket, request, db, ret,
                   status_out, calls>>

\* Lines 325-332: krb5_db_free_principal(context, tgt_entry), a no-op on
\* NULL, then the strings are freed and ret is returned.
Cleanup(p) ==
    /\ pc[p] = "cleanup"
    /\ IF local[p].tgt_entry
       THEN /\ held' = held - 1
            /\ calls' = [calls EXCEPT ![p] = Append(@,
                  Call("krb5_db_free_principal",
                       krb5_unparse_name(ticket[p].server), OK))]
       ELSE UNCHANGED <<held, calls>>
    /\ local' = [local EXCEPT ![p] = InitLocal]
    /\ pc' = [pc EXCEPT ![p] = "done"]
    /\ UNCHANGED <<moddata, denial_msg, ticket, request, db, ret,
                   status_out>>

\* The KDC has used the verdict and the status; the call is over.
Return(p) ==
    /\ pc[p] = "done"
    /\ pc' = [pc EXCEPT ![p] = "idle"]
    /\ ticket' = [ticket EXCEPT ![p] = NoTicket]
    /\ request' = [request EXCEPT ![p] = NoRequest]
    /\ db' = [db EXCEPT ![p] = <<>>]
    /\ local' = [local EXCEPT ![p] = InitLocal]
    /\ ret' = [ret EXCEPT ![p] = OK]
    /\ status_out' = [status_out EXCEPT ![p] = StatusNull]
    /\ calls' = [calls EXCEPT ![p] = <<>>]
    /\ UNCHANGED <<moddata, denial_msg, held>>

Step(p) ==
    \/ CheckPreapproved(p)
    \/ BuildRealmAcl(p)
    \/ GetPrincipal(p)
    \/ CheckRealmAttr(p)
    \/ BuildPrincAcl(p)
    \/ CheckPrincAttr(p)
    \/ FormatDenial(p)
    \/ SnprintfPartial(p)
    \/ SetDenialStatus(p)
    \/ Cleanup(p)
    \/ Return(p)

\* The KDC as built: one request is handled at a time.
Next == xrealmauthz_check(MainProc, ClientNames, TRUE) \/ Step(MainProc)

Spec == Init /\ [][Next]_vars

\* Several requests in flight at once, each with its own client.
NextConc ==
    \E p \in Procs : xrealmauthz_check(p, ConcClientNames(p), FALSE) \/ Step(p)

SpecConc == InitConc /\ [][NextConc]_vars

\* ------------------------------------------------------- terms of the claims

\* decide (check_cross_realm_auth) was entered by call p: the requested
\* service's realm differs from the client's.
CrossRealm(p) == request[p].server.realm # ticket[p].client.realm

Returned(p) == pc[p] = "done" /\ CrossRealm(p)

\* The client's realm is one of the configured allowed realms.
Allowlisted(p) ==
    /\ ~moddata.null
    /\ \E i \in 1..Len(moddata.allowed_realms) :
          moddata.allowed_realms[i].name = ticket[p].client.realm

EnforcingMode == moddata.null \/ moddata.enforcing
AuditMode == ~moddata.null /\ ~moddata.enforcing

IsFree(c) == c.op = "krb5_db_free_principal"
IsStoreCall(c) == ~IsFree(c)
StoreCalls(p) == SelectSeq(calls[p], IsStoreCall)
Frees(p) == SelectSeq(calls[p], IsFree)

DirectHop(p) == ticket[p].server.realm = ticket[p].client.realm

RealmScopeKey(p) == <<"x", "r", ":", "@">> \o ticket[p].client.realm
BareKey(p) == <<"x", "r", ":">> \o JoinComponents(ticket[p].client.name)
QualifiedKey(p) == BareKey(p) \o <<"@">> \o ticket[p].client.realm
PrincipalScopeKey(p) == IF DirectHop(p) THEN BareKey(p) ELSE QualifiedKey(p)

\* The entry was fetched and both attributes were read without error.
ReadCleanly(p) ==
    /\ Len(StoreCalls(p)) = 3
    /\ \A i \in 1..3 : StoreCalls(p)[i].rc = OK

\* The call returned a verdict: allow (0) or the policy denial.
Verdict(p) == ret[p] \in {OK, KRB5KDC_ERR_POLICY}

FullName(princ) == JoinComponents(princ.name) \o <<"@">> \o princ.realm

DeniedText(p) == DeniedFmt \o ticket[p].server.realm
WouldDenyText(p) ==
    WouldDenyFmt \o FullName(ticket[p].client) \o ForFmt
        \o FullName(request[p].server) \o FromFmt \o ticket[p].server.realm

\* Every lead byte is followed by its continuation byte and every
\* continuation byte follows a lead byte.
WellFormed(s) ==
    \A i \in 1..Len(s) :
        /\ s[i] = "C3" => (i < Len(s) /\ s[i + 1] = "A9")
        /\ s[i] = "A9" => (i > 1 /\ s[i - 1] = "C3")

\* ------------------------------------------------------------------ claims

\* C1: a call whose client realm is in allowed_realms returns allow (0) with
\* no status and without any database call, whatever the enforcing flag and
\* the attributes on the TGT entry.
C1_PreapprovedNoStoreCalls ==
    \A p \in Procs :
        (pc[p] # "idle" /\ CrossRealm(p) /\ Allowlisted(p)) =>
            /\ calls[p] = <<>>
            /\ pc[p] \in {"L228", "done"}
            /\ pc[p] = "done" =>
                  (ret[p] = OK /\ status_out[p] = StatusNull)

C1_Witness ==
    /\ Returned(MainProc) /\ Allowlisted(MainProc)
    /\ moddata.enforcing
    /\ db[MainProc] = <<>>
    /\ ret[MainProc] = OK

\* C2: when the client realm is not pre-approved and a database call fails
\* (the fetch of the TGT entry or either attribute read), the call returns an
\* error code that is neither allow (0) nor the policy denial, in enforcing
\* and in audit mode, and the failing call is the last database read made.
C2_StoreFailureAborts ==
    \A p \in Procs :
        \A i \in 1..Len(StoreCalls(p)) :
            StoreCalls(p)[i].rc # OK =>
                /\ i = Len(StoreCalls(p))
                /\ pc[p] \in {"cleanup", "done"}
                /\ ret[p] = StoreCalls(p)[i].rc
                /\ ~Verdict(p)

C2_Witness ==
    /\ Returned(MainProc) /\ AuditMode
    /\ Len(StoreCalls(MainProc)) = 3
    /\ StoreCalls(MainProc)[3].rc = KDB_READ_ERROR
    /\ ret[MainProc] = KDB_READ_ERROR

\* C3: in enforcing mode, with the client realm not pre-approved, the
\* realm-scope attribute absent and no call failing, a direct hop is allowed
\* exactly when the entry carries "xr:" + name (the qualified key does not
\* count), and a transitive hop exactly when it carries
\* "xr:" + name + "@" + realm (the bare key does not count).
C3_KeyShapeFollowsTrustPath ==
    \A p \in Procs :
        (/\ Returned(p) /\ ~Allowlisted(p) /\ EnforcingMode
         /\ Verdict(p) /\ ~HasAttr(db[p], RealmScopeKey(p))) =>
            IF DirectHop(p)
            THEN ret[p] = (IF HasAttr(db[p], BareKey(p))
                           THEN OK ELSE KRB5KDC_ERR_POLICY)
            ELSE ret[p] = (IF HasAttr(db[p], QualifiedKey(p))
                           THEN OK ELSE KRB5KDC_ERR_POLICY)

C3_Witness ==
    /\ Returned(MainProc) /\ EnforcingMode /\ DirectHop(MainProc)
    /\ ticket[MainProc].client = Princ(Alice, R1)
    /\ db[MainProc] = <<QualifiedKey(MainProc)>>
    /\ ret[MainProc] = KRB5KDC_ERR_POLICY

\* C4 as stated: whenever the client realm is not pre-approved and the TGT
\* entry, fetched and read without error, carries "xr:@" + the realm of
\* ticket.server, the call returns allow.
C4_Original_ServerRealmKeyAllows ==
    \A p \in Procs :
        (/\ Returned(p) /\ ~Allowlisted(p) /\ Verdict(p)
         /\ HasAttr(db[p], <<"x", "r", ":", "@">>
                              \o ticket[p].server.realm)) =>
            ret[p] = OK

\* C4 amended: whenever the client realm is not pre-approved and the TGT
\* entry, fetched and read without error, carries "xr:@" + the realm of
\* ticket.client, the call returns allow with no status and without reading
\* the principal-scope attribute, on direct and transitive hops, in
\* enforcing mode too.
C4_ClientRealmKeyAllows ==
    \A p \in Procs :
        (/\ Returned(p) /\ ~Allowlisted(p)
         /\ Len(StoreCalls(p)) >= 2
         /\ StoreCalls(p)[1].rc = OK /\ StoreCalls(p)[2].rc = OK
         /\ HasAttr(db[p], RealmScopeKey(p))) =>
            /\ ret[p] = OK
            /\ status_out[p] = StatusNull
            /\ Len(StoreCalls(p)) = 2

C4_Witness ==
    /\ Returned(MainProc) /\ EnforcingMode /\ ~DirectHop(MainProc)
    /\ db[MainProc] = <<RealmScopeKey(MainProc)>>
    /\ Len(StoreCalls(MainProc)) = 2
    /\ ret[MainProc] = OK

\* C5: in enforcing mode (also when no module data is supplied), with the
\* client realm not pre-approved, the entry fetched and read without error
\* and neither the realm-scope nor the principal-scope attribute present, the
\* call returns the policy denial with status
\* "xrealmauthz plugin denied from " + realm of ticket.server, a text in
\* which neither the client nor the requested service appears.
C5_EnforcingDenial ==
    \A p \in Procs :
        (/\ Returned(p) /\ ~Allowlisted(p) /\ EnforcingMode
         /\ ReadCleanly(p)
         /\ ~HasAttr(db[p], RealmScopeKey(p))
         /\ ~HasAttr(db[p], PrincipalScopeKey(p))) =>
            /\ ret[p] = KRB5KDC_ERR_POLICY
            /\ status_out[p] = StatusDenialMsg
            /\ Deref(status_out[p]) = DeniedText(p)

C5_Witness ==
    /\ Returned(MainProc) /\ moddata.null
    /\ ReadCleanly(MainProc)
    /\ ret[MainProc] = KRB5KDC_ERR_POLICY
    /\ Deref(status_out[MainProc]) = DeniedFmt \o R2

\* C6: in audit mode a call never returns the policy denial; with the client
\* realm not pre-approved, the entry fetched and read without error, neither
\* attribute present and the names unparsed, it returns allow with the
\* non-empty status "xrealmauthz plugin would deny C for S from R" (C the
\* qualified ticket client, S the qualified request.server, R the realm of
\* ticket.server), cut to the MAX_DENIAL_MSG_LEN - 1 bytes the buffer holds;
\* every other allow carries no status.
C6_AuditWouldDeny ==
    \A p \in Procs :
        /\ (Returned(p) /\ AuditMode) => ret[p] # KRB5KDC_ERR_POLICY
        /\ (/\ Returned(p) /\ ~Allowlisted(p) /\ AuditMode
            /\ ReadCleanly(p) /\ Verdict(p)
            /\ ~HasAttr(db[p], RealmScopeKey(p))
            /\ ~HasAttr(db[p], PrincipalScopeKey(p))) =>
               /\ ret[p] = OK
               /\ status_out[p] = StatusDenialMsg
               /\ Deref(status_out[p])
                     = Take(WouldDenyText(p), MAX_DENIAL_MSG_LEN - 1)
               /\ Deref(status_out[p]) # <<>>
        /\ (/\ pc[p] = "done" /\ ret[p] = OK
            /\ \/ ~CrossRealm(p)
               \/ Allowlisted(p)
               \/ HasAttr(db[p], RealmScopeKey(p))
               \/ HasAttr(db[p], PrincipalScopeKey(p))) =>
               status_out[p] = StatusNull

C6_Witness ==
    /\ Returned(MainProc) /\ AuditMode
    /\ ticket[MainProc].client = Princ(Alice, R1)
    /\ ticket[MainProc].server.realm = R2
    /\ request[MainProc].server = Princ(HostWww, R3)
    /\ ret[MainProc] = OK
    /\ Deref(status_out[MainProc]) = WouldDenyText(MainProc)

\* C7: with several calls in flight, the status a caller reads after its
\* call has returned is the message built from that call's own ticket and
\* request.
C7_StatusIsOwnMessage ==
    \A p \in Procs :
        (Returned(p) /\ status_out[p] = StatusDenialMsg) =>
            Deref(status_out[p]) =
                Take(IF EnforcingMode THEN DeniedText(p)
                     ELSE WouldDenyText(p), MAX_DENIAL_MSG_LEN - 1)

\* C8: the TGT entry is released exactly once, before the call returns, on
\* every path that fetched it, and never on a path that did not; no entry is
\* held once the call has returned.
C8_EntryReleasedOnEveryPath ==
    /\ \A p \in Procs :
          /\ Len(Frees(p)) <= 1
          /\ Len(Frees(p)) = 1 =>
                (Len(StoreCalls(p)) >= 1 /\ StoreCalls(p)[1].rc = OK)
          /\ pc[p] = "done" =>
                Len(Frees(p)) =
                    (IF Len(StoreCalls(p)) >= 1 /\ StoreCalls(p)[1].rc = OK
                     THEN 1 ELSE 0)
    /\ (\A p \in Procs : pc[p] \in {"idle", "done"}) => held = 0

C8_Witness ==
    /\ Returned(MainProc)
    /\ Len(StoreCalls(MainProc)) = 2
    /\ StoreCalls(MainProc)[2].rc = KDB_READ_ERROR
    /\ Len(Frees(MainProc)) = 1
    /\ held = 0

\* C9: every status a call returns is at most MAX_DENIAL_MSG_LEN bytes long,
\* a message longer than the buffer is cut without changing the verdict, and
\* the cut status is well-formed: no multi-byte character is cut in two.
C9_StatusCappedAndWellFormed ==
    \A p \in Procs :
        (pc[p] = "done" /\ status_out[p] # StatusNull) =>
            /\ Len(Deref(status_out[p])) <= MAX_DENIAL_MSG_LEN
            /\ (status_out[p] = StatusDenialMsg) => Verdict(p)
            /\ WellFormed(Deref(status_out[p]))

\* C10: the database calls of one decision are, in this order, one fetch of
\* the entry of ticket.server, the read of the realm-scope attribute and the
\* read of the principal-scope attribute; none is made before the allowlist
\* test or for a pre-approved realm, each is made only if the one before
\* succeeded, the principal-scope read only if the realm-scope attribute
\* was found absent, and a denial status is set only after all three.
C10_StrictOrderFirstMatchWins ==
    \A p \in Procs :
        LET s == StoreCalls(p)
        IN /\ Len(s) <= 3
           /\ pc[p] \in {"idle", "L228", "L232", "L240"} => s = <<>>
           /\ Len(s) >= 1 =>
                 /\ s[1].op = "krb5_db_get_principal"
                 /\ s[1].arg = FullName(ticket[p].server)
                 /\ ~Allowlisted(p)
           /\ Len(s) >= 2 =>
                 /\ s[1].rc = OK
                 /\ s[2].op = "krb5_dbe_get_string"
                 /\ s[2].arg = RealmScopeKey(p)
           /\ Len(s) >= 3 =>
                 /\ s[2].rc = OK
                 /\ ~HasAttr(db[p], s[2].arg)
                 /\ s[3].op = "krb5_dbe_get_string"
                 /\ s[3].arg = PrincipalScopeKey(p)
           /\ status_out[p] = StatusDenialMsg =>
                 /\ Len(s) = 3
                 /\ s[3].rc = OK
                 /\ ~HasAttr(db[p], s[3].arg)

C10_Witness ==
    /\ Returned(MainProc)
    /\ Len(StoreCalls(MainProc)) = 3
    /\ ~HasAttr(db[MainProc], RealmScopeKey(MainProc))
    /\ HasAttr(db[MainProc], PrincipalScopeKey(MainProc))
    /\ ret[MainProc] = OK

====
